---- MODULE Spec2Model ----
(***************************************************************************)
(* Model of auto_editor/__main__.py: main() from the empty-input check     *)
(* (line 141) to the dispatch loop (lines 206-266).                        *)
(*                                                                         *)
(* Paths and texts are sequences of one-character strings, so that rfind,  *)
(* slicing, startswith and the regular expressions of the source are       *)
(* computed rather than assumed.  Thresholds are integers in hundredths    *)
(* (1.01 is 101, 0.04 is 4).                                               *)
(*                                                                         *)
(* Line 168 of the source reads `inputList.append.(basename + '.mp4')`,    *)
(* which is not Python; it is modelled as the append it was meant to be.   *)
(* Every other statement is modelled as Python executes it: a name that    *)
(* main() reads but nothing assigns (sort, newOutput, extension) raises    *)
(* NameError at the read, len(None) raises TypeError, float('..') raises   *)
(* ValueError, and an uncaught exception ends the process with status 1.   *)
(*                                                                         *)
(* Every path through one iteration of the dispatch loop ends in such an   *)
(* exception (each strategy call reads newOutput, the re-encode reads      *)
(* extension), so no run leaves the loop normally and lines 268-290 are    *)
(* never executed; the model has no action for them.                       *)
(***************************************************************************)
EXTENDS Integers, Sequences, FiniteSets, TLC

(* ---------------- bounds of the model ---------------- *)
MaxArgs == 2
MaxOutputs == 2

(* ---------------- the environment: file system, inputs ---------------- *)
VideoA == <<"a", ".", "m">>
AudioC == <<"c">>
VideoD == <<"d", ".", "x", "/", "e">>
DirQ == <<"q">>
UrlV == <<"h", "t", "t", "p", ":", "/", "/", "v">>
Missing == <<"z">>
Out1 == <<"o", ".", "m">>
Out2 == <<"p", ".", "m">>

ArgUniverse == {VideoA, AudioC, VideoD, DirQ, UrlV, Missing}
OutNames == {Out1, Out2}
(* the directory q holds the files f and g and the sub-directory s *)
ExistingFiles == {VideoA, AudioC, VideoD, <<"q", "/", "f">>, <<"q", "/", "g">>}
ExistingDirs == {DirQ, <<"q", "/", "s">>}
AudioFiles == {AudioC}

None == <<>>
MusicFile == <<"m", ".", "w">>
(* (zoom_threshold, silent_threshold) in hundredths; <<101, 4>> are the defaults *)
Thresholds == {<<101, 4>>, <<2, 4>>, <<50, 4>>, <<101, 120>>}

TextTbr == <<" ", "2", "5", " ", "t", "b", "r">>
TextNoTbr == <<"I", "n", "v", "a", "l", "i", "d">>
TextBadNumber == <<" ", ".", ".", " ", "t", "b", "r">>
ProbeTexts == {TextTbr, TextNoTbr, TextBadNumber}

SeqsUpTo(S, n) == UNION {[1..k -> S] : k \in 0..n}

(* ---------------- library functions, as Python computes them ---------------- *)
isdir(p) == p \in ExistingDirs
isfile(p) == p \in ExistingFiles
isAudioFile(p) == p \in AudioFiles

(* os.listdir(d): the names in d, in no particular order *)
listdir(d) == IF d = DirQ THEN {<<"f">>, <<"g">>, <<"s">>} ELSE {}

startswith(s, prefix) ==
    /\ Len(s) >= Len(prefix)
    /\ SubSeq(s, 1, Len(prefix)) = prefix

Http == <<"h", "t", "t", "p", ":", "/", "/">>
Https == <<"h", "t", "t", "p", "s", ":", "/", "/">>

Digits == {"0", "1", "2", "3", "4", "5", "6", "7", "8", "9"}
Letters == {"a", "b", "c", "d", "e", "h", "m", "o", "p", "q", "s", "t", "v",
            "x", "z", "r", "l", "n", "i", "w", "I", "A", "L", "T", "E", "R", "D"}
WordChars == Letters \cup Digits \cup {"_"}
Whitespace == {" "}

(* re.sub(r'\W+', '-', s): every maximal run of non-word characters becomes one '-' *)
RECURSIVE reSubNonWord(_, _)
reSubNonWord(s, inRun) ==
    IF s = <<>> THEN <<>>
    ELSE IF Head(s) \in WordChars THEN <<Head(s)>> \o reSubNonWord(Tail(s), FALSE)
    ELSE IF inRun THEN reSubNonWord(Tail(s), TRUE)
    ELSE <<"-">> \o reSubNonWord(Tail(s), TRUE)

(* str.rfind('.'): the Python (0-based) index of the last '.', or -1 *)
rfind(s) ==
    LET hits == {k \in 1..Len(s) : s[k] = "."}
    IN  IF hits = {} THEN -1 ELSE (CHOOSE k \in hits : \A j \in hits : j <= k) - 1

(* a Python slice bound: negative indices count from the end, then clamp *)
SliceBound(s, k) ==
    LET n == IF k < 0 THEN k + Len(s) ELSE k
    IN  IF n < 0 THEN 0 ELSE IF n > Len(s) THEN Len(s) ELSE n

(* s[:k] and s[k:] *)
SliceTo(s, k) == SubSeq(s, 1, SliceBound(s, k))
SliceFrom(s, k) == SubSeq(s, SliceBound(s, k) + 1, Len(s))

DotXml == <<".", "x", "m", "l">>
DotMp4 == <<".", "m", "p", "4">>
Altered == <<"_", "A", "L", "T", "E", "R", "E", "D">>
CombinedMp4 == <<"c", "o", "m", "b", "i", "n", "e", "d", ".", "m", "p", "4">>
TempDir == <<"T">>


(* re.search(r'\s(?P<fps>[\d\.]+?)\stbr', text): the positions a match can start at *)
MatchEnd(text, k) ==
    {j \in (k + 1)..Len(text) :
        /\ \A n \in (k + 1)..j : text[n] \in Digits \cup {"."}
        /\ j + 4 <= Len(text)
        /\ text[j + 1] \in Whitespace
        /\ SubSeq(text, j + 2, j + 4) = <<"t", "b", "r">>}

MatchStarts(text) ==
    {k \in 1..Len(text) : text[k] \in Whitespace /\ MatchEnd(text, k) # {}}

reSearch(text) == MatchStarts(text) # {}

(* the fps group of the leftmost match *)
fpsGroup(text) ==
    LET k == CHOOSE k \in MatchStarts(text) : \A n \in MatchStarts(text) : k <= n
        j == CHOOSE j \in MatchEnd(text, k) : \A n \in MatchEnd(text, k) : j <= n
    IN  SubSeq(text, k + 1, j)

(* float(s) for a string of digits and dots: at most one dot, at least one digit *)
floatParses(s) ==
    /\ Cardinality({k \in 1..Len(s) : s[k] = "."}) <= 1
    /\ \E k \in 1..Len(s) : s[k] \in Digits

(* names main() reads and nothing assigns: reading them raises NameError *)
Unbound == <<"NameError">>
newOutput == Unbound
extension == Unbound
sort == Unbound

(* ---------------- state ---------------- *)
VARIABLES
    args,        \* the parsed arguments (args.output_file is extended by naming)
    inputList,   \* the processing queue
    INPUT_FILE,  \* line 151, then the loop variable of line 206
    idx,         \* arguments resolved so far (loop of line 155)
    i,           \* queue positions the dispatch loop has entered
    fileText,    \* what the decoder prints for the queue entry the loop is at
    output,      \* the decoded probe text, line 226
    TEMP,        \* line 237; None while the local is unassigned
    tempDirs,    \* temporary directories that exist on disk
    trace,       \* external calls and strategy selections, in order
    pc,          \* position in main()
    exitStatus,  \* process exit status once pc is "exited" or "crashed"
    error        \* the exception an aborted run died of

vars == <<args, inputList, INPUT_FILE, idx, i, fileText, output, TEMP, tempDirs,
          trace, pc, exitStatus, error>>

NoList == [isNone |-> TRUE, list |-> <<>>]
GivenList(l) == [isNone |-> FALSE, list |-> l]

Ev(op, pos, file, what, out, text) ==
    [op |-> op, pos |-> pos, file |-> file, what |-> what, out |-> out, text |-> text]

Init ==
    /\ \E input \in SeqsUpTo(ArgUniverse, MaxArgs),
          outs \in {NoList} \cup {GivenList(l) : l \in SeqsUpTo(OutNames, MaxOutputs)},
          export \in BOOLEAN, combine \in BOOLEAN, prev \in BOOLEAN,
          music \in {None, MusicFile}, cut \in {None, MusicFile},
          th \in Thresholds :
            args = [input |-> input, output_file |-> outs,
                    export_to_premiere |-> export, combine_files |-> combine,
                    preview |-> prev, background_music |-> music,
                    cut_by_this_audio |-> cut, zoom_threshold |-> th[1],
                    silent_threshold |-> th[2]]
    /\ inputList = <<>>
    /\ INPUT_FILE = None
    /\ idx = 0
    /\ i = 0
    /\ fileText = <<>>
    /\ output = <<>>
    /\ TEMP = None
    /\ tempDirs = {}
    /\ trace = <<>>
    /\ pc = "start"
    /\ exitStatus = -1
    /\ error = ""

Terminated == pc \in {"exited", "crashed"}

(* sys.exit(code) and an uncaught exception *)
Exit(code) == pc' = "exited" /\ exitStatus' = code /\ error' = ""
Raise(exc) == pc' = "crashed" /\ exitStatus' = 1 /\ error' = exc

(* where main() goes once naming is done: lines 183, 194, 206 *)
AfterNaming == IF args.combine_files THEN "combine"
               ELSE IF args.preview THEN "preview" ELSE "loop"
AfterCombine == IF args.preview THEN "preview" ELSE "loop"

(* ---------------- lines 141-152 ---------------- *)
CheckInput ==
    /\ pc = "start"
    /\ IF args.input = <<>>
       THEN Exit(1) /\ UNCHANGED INPUT_FILE
       ELSE /\ INPUT_FILE' = args.input[1]
            /\ pc' = "resolve"
            /\ UNCHANGED <<exitStatus, error>>
    /\ UNCHANGED <<args, inputList, idx, i, fileText, output, TEMP, tempDirs, trace>>

(* ---------------- lines 154-171: the resolver ---------------- *)
InputKindSkipCheck(myInput) ==
    IF isdir(myInput) THEN "dir"
    ELSE IF startswith(myInput, Http) \/ startswith(myInput, Https) THEN "url"
    ELSE "file"

InputKind(myInput) ==
    IF isdir(myInput) THEN "dir"
    ELSE IF isfile(myInput) THEN "file"
    ELSE IF startswith(myInput, Http) \/ startswith(myInput, Https) THEN "url"
    ELSE "invalid"

Resolving(kind) ==
    /\ pc = "resolve"
    /\ idx < Len(args.input)
    /\ InputKind(args.input[idx + 1]) = kind

(* line 157: `sort` is read before os.listdir is called *)
ResolveDir ==
    /\ Resolving("dir")
    /\ sort = Unbound
    /\ Raise("NameError")
    /\ UNCHANGED <<args, inputList, INPUT_FILE, idx, i, fileText, output, TEMP,
                   tempDirs, trace>>

ResolveFile ==
    /\ Resolving("file")
    /\ inputList' = Append(inputList, args.input[idx + 1])
    /\ idx' = idx + 1
    /\ UNCHANGED <<args, fileText, INPUT_FILE, i, output, TEMP, tempDirs, trace, pc,
                   exitStatus, error>>

ResolveURL ==
    /\ Resolving("url")
    /\ LET myInput == args.input[idx + 1]
           basename == reSubNonWord(myInput, FALSE)
       IN  /\ trace' = Append(trace, Ev("download", idx + 1, myInput, "youtube-dl",
                                        basename, <<>>))
           /\ inputList' = Append(inputList, basename \o DotMp4)
    /\ idx' = idx + 1
    /\ UNCHANGED <<args, fileText, INPUT_FILE, i, output, TEMP, tempDirs, pc,
                   exitStatus, error>>

ResolveInvalid ==
    /\ Resolving("invalid")
    /\ Exit(1)
    /\ UNCHANGED <<args, inputList, INPUT_FILE, idx, i, fileText, output, TEMP,
                   tempDirs, trace>>

(* ---------------- lines 173-181: the output namer ---------------- *)
(* lines 175-181: the name appended for oldFile *)
DerivedName(oldFile) ==
    LET dotIndex == rfind(oldFile)
    IN  IF args.export_to_premiere
        THEN SliceTo(oldFile, dotIndex) \o DotXml
        ELSE SliceTo(oldFile, dotIndex) \o Altered \o SliceFrom(oldFile, dotIndex)

(* the list after the loop of line 174: round k reads inputList[k] (0-based k-1) *)
NamedOutputs(outs, queue) ==
    IF Len(outs) < Len(queue)
    THEN outs \o [k \in 1..(Len(queue) - Len(outs)) |-> DerivedName(queue[k])]
    ELSE outs

(* line 173: len(None) raises TypeError when -o was not given at all *)
NameOutputs ==
    /\ pc = "resolve"
    /\ idx = Len(args.input)
    /\ IF args.output_file.isNone
       THEN Raise("TypeError") /\ UNCHANGED args
       ELSE /\ args' = [args EXCEPT !.output_file.list = NamedOutputs(@, inputList)]
            /\ pc' = AfterNaming
            /\ UNCHANGED <<exitStatus, error>>
    /\ UNCHANGED <<inputList, INPUT_FILE, idx, i, fileText, output, TEMP, tempDirs, trace>>

(* ---------------- lines 183-192: combine-files mode ---------------- *)
CombineFiles ==
    /\ pc = "combine"
    /\ trace' = trace \o
         << Ev("write_manifest", 0, <<>>, "combine_files.txt", <<>>, <<>>),
            Ev("concat", 0, <<>>, "ffmpeg", CombinedMp4, <<>>),
            Ev("remove_manifest", 0, <<>>, "combine_files.txt", <<>>, <<>>) >>
    /\ inputList' = <<CombinedMp4>>
    /\ pc' = AfterCombine
    /\ UNCHANGED <<args, INPUT_FILE, idx, i, fileText, output, TEMP, tempDirs,
                   exitStatus, error>>

(* ---------------- lines 194-200: preview mode ---------------- *)
Preview ==
    /\ pc = "preview"
    /\ trace' = Append(trace, Ev("preview", 0, INPUT_FILE, "preview", <<>>, <<>>))
    /\ Exit(0)
    /\ UNCHANGED <<args, inputList, INPUT_FILE, idx, i, fileText, output, TEMP, tempDirs>>

(* ---------------- lines 206-266: the dispatch loop ---------------- *)
(* the mutually exclusive branches of lines 207, 214, 221 *)
BranchAudioFirst(file) ==
    IF isAudioFile(file) THEN "AudioFast"
    ELSE IF args.export_to_premiere THEN "PremiereExport"
    ELSE "Video"

Branch(file) ==
    IF args.export_to_premiere THEN "PremiereExport"
    ELSE IF isAudioFile(file) THEN "AudioFast"
    ELSE "Video"

VideoStrategyByZoomOnly ==
    IF args.zoom_threshold > 100 THEN "VideoFast" ELSE "OriginalFull"

(* lines 249-266; thresholds are in hundredths, so `> 1` is `> 100` *)
VideoStrategy ==
    IF /\ args.background_music = None
       /\ args.zoom_threshold > 100
       /\ args.cut_by_this_audio = None
    THEN "VideoFast"
    ELSE "OriginalFull"

(* the loop head of line 206 takes the next queue entry *)
Entering(branch) ==
    /\ pc = "loop"
    /\ i < Len(inputList)
    /\ Branch(inputList[i + 1]) = branch
    /\ i' = i + 1
    /\ INPUT_FILE' = inputList[i + 1]
    /\ fileText' \in ProbeTexts

(* A call site of a strategy: the strategy's module is imported and the
   arguments are evaluated left to right; reading newOutput raises NameError
   before the strategy is entered. *)
CallStrategy(strategy, pos, file, text) ==
    /\ trace' = Append(trace, Ev("select", pos, file, strategy, newOutput, text))
    /\ newOutput = Unbound
    /\ Raise("NameError")

(* lines 207-213 *)
DispatchPremiere ==
    /\ Entering("PremiereExport")
    /\ CallStrategy("PremiereExport", i + 1, inputList[i + 1], fileText')
    /\ UNCHANGED <<args, inputList, idx, output, TEMP, tempDirs>>

(* lines 214-220 *)
DispatchAudio ==
    /\ Entering("AudioFast")
    /\ CallStrategy("AudioFast", i + 1, inputList[i + 1], fileText')
    /\ UNCHANGED <<args, inputList, idx, output, TEMP, tempDirs>>

(* lines 222-226: the decoder probe; its text is the environment's choice *)
ProbeVideo ==
    /\ Entering("Video")
    /\ output' = fileText'
    /\ trace' = Append(trace, Ev("probe", i + 1, inputList[i + 1], "ffmpeg", <<>>,
                                 fileText'))
    /\ pc' = "probed"
    /\ UNCHANGED <<args, inputList, idx, TEMP, tempDirs, exitStatus, error>>

(* lines 231-232 succeed, then lines 246-266 *)
FrameRateDetected ==
    /\ pc = "probed"
    /\ reSearch(output)
    /\ floatParses(fpsGroup(output))
    /\ CallStrategy(VideoStrategy, i, INPUT_FILE, fileText)
    /\ UNCHANGED <<args, inputList, INPUT_FILE, idx, i, fileText, output, TEMP, tempDirs>>

(* line 232: float() raises ValueError, which line 233 does not catch *)
FrameRateUnparsable ==
    /\ pc = "probed"
    /\ reSearch(output)
    /\ ~floatParses(fpsGroup(output))
    /\ Raise("ValueError")
    /\ UNCHANGED <<args, inputList, INPUT_FILE, idx, i, fileText, output, TEMP,
                   tempDirs, trace>>

(* lines 231, 233-240: re.search returns None, .groupdict() raises
   AttributeError; the handler creates the directory and then reads
   `extension` while building the re-encode command *)
FrameRateUndetected ==
    /\ pc = "probed"
    /\ ~reSearch(output)
    /\ TEMP' = TempDir
    /\ tempDirs' = tempDirs \cup {TempDir}
    /\ trace' = Append(trace, Ev("mkdtemp", i, TempDir, "tempfile", <<>>, <<>>))
    /\ extension = Unbound
    /\ Raise("NameError")
    /\ UNCHANGED <<args, inputList, INPUT_FILE, idx, i, fileText, output>>

Next ==
    \/ CheckInput
    \/ ResolveDir
    \/ ResolveFile
    \/ ResolveURL
    \/ ResolveInvalid
    \/ NameOutputs
    \/ CombineFiles
    \/ Preview
    \/ DispatchPremiere
    \/ DispatchAudio
    \/ ProbeVideo
    \/ FrameRateDetected
    \/ FrameRateUnparsable
    \/ FrameRateUndetected

Spec == Init /\ [][Next]_vars

TypeOK ==
    /\ pc \in {"start", "resolve", "combine", "preview", "loop", "probed",
               "exited", "crashed"}
    /\ idx \in 0..Len(args.input)
    /\ i \in 0..Len(inputList)
    /\ exitStatus \in {-1, 0, 1}
    /\ Terminated <=> exitStatus # -1

(* ---------------- vocabulary of the properties ---------------- *)
Strategies == {"PremiereExport", "AudioFast", "VideoFast", "OriginalFull"}

(* positions of the trace at which a strategy's call statement was executed *)
Selections == {k \in DOMAIN trace : trace[k].op = "select"}
Probes == {k \in DOMAIN trace : trace[k].op = "probe"}

(* a call statement whose arguments all evaluated, so that the strategy ran *)
Invoked(pos) ==
    {k \in Selections : trace[k].pos = pos /\ trace[k].out # Unbound}

Reencodes(pos) ==
    {k \in DOMAIN trace : trace[k].op = "reencode" /\ trace[k].pos = pos}

InLoop == i >= 1

(* an argument that is no file, no directory and no http(s) URL *)
IsInvalidRef(p) ==
    /\ p \notin ExistingFiles
    /\ p \notin ExistingDirs
    /\ ~startswith(p, Http)
    /\ ~startswith(p, Https)

(* C1: whenever the call statement of a strategy is executed for a queue
   entry, the strategy is PremiereExport if export mode is on (also for an
   audio entry), else AudioFast if the entry is audio, else one of VideoFast
   and OriginalFull; no entry gets two strategies, and the probe of the video
   branch is never run in export mode or for an audio entry. *)
C1_FirstMatchPrecedence ==
    /\ \A k \in Selections :
         LET e == trace[k]
             audio == inputList[e.pos] \in AudioFiles
         IN  /\ e.what \in Strategies
             /\ args.export_to_premiere => e.what = "PremiereExport"
             /\ (~args.export_to_premiere /\ audio) => e.what = "AudioFast"
             /\ (~args.export_to_premiere /\ ~audio)
                    => e.what \in {"VideoFast", "OriginalFull"}
    /\ \A k1, k2 \in Selections : trace[k1].pos = trace[k2].pos => k1 = k2
    /\ \A k \in Probes :
         ~args.export_to_premiere /\ inputList[trace[k].pos] \notin AudioFiles

(* an audio entry in export mode, dispatched to PremiereExport *)
C1_Witness ==
    \E k \in Selections :
        /\ args.export_to_premiere
        /\ inputList[trace[k].pos] \in AudioFiles
        /\ trace[k].what = "PremiereExport"

VideoSelections ==
    {k \in Selections :
        ~args.export_to_premiere /\ inputList[trace[k].pos] \notin AudioFiles}

(* C2 as stated: for a video entry outside export mode VideoFast is selected
   exactly when there is no background music, no cut-by-audio file and the
   zoom threshold does not exceed the silent threshold; else OriginalFull. *)
C2_AsStated ==
    \A k \in VideoSelections :
        /\ trace[k].what \in {"VideoFast", "OriginalFull"}
        /\ trace[k].what = "VideoFast" <=>
              /\ args.background_music = None
              /\ args.cut_by_this_audio = None
              /\ args.zoom_threshold <= args.silent_threshold

(* C2 amended: for a video entry outside export mode VideoFast is selected
   exactly when there is no background music, no cut-by-audio file and the
   zoom threshold is greater than 1 (1.00, the largest volume there is);
   in every other video case OriginalFull is selected. *)
C2_ZoomAboveOne ==
    \A k \in VideoSelections :
        /\ trace[k].what \in {"VideoFast", "OriginalFull"}
        /\ trace[k].what = "VideoFast" <=>
              /\ args.background_music = None
              /\ args.cut_by_this_audio = None
              /\ args.zoom_threshold > 100

(* the default thresholds (1.01 and 0.04) and no music or cut file: VideoFast *)
C2_Witness ==
    \E k \in VideoSelections :
        /\ args.zoom_threshold = 101
        /\ args.silent_threshold = 4
        /\ args.background_music = None
        /\ args.cut_by_this_audio = None
        /\ trace[k].what = "VideoFast"

(* C3: a run that reached the dispatch loop ends with every queue entry's
   strategy invoked exactly once, in queue order. *)
C3_InvokedExactlyOnce ==
    (Terminated /\ InLoop) =>
        /\ \A pos \in 1..Len(inputList) : Cardinality(Invoked(pos)) = 1
        /\ \A k1, k2 \in Selections :
               k1 < k2 => trace[k1].pos < trace[k2].pos

(* C4: every strategy call passes the output name at the position of its
   input, args.output_file[pos], never an unbound name. *)
C4_OutputOfSamePosition ==
    \A k \in Selections :
        /\ trace[k].out # Unbound
        /\ trace[k].pos \in DOMAIN args.output_file.list
        /\ trace[k].out = args.output_file.list[trace[k].pos]

NamingStep == pc = "resolve" /\ idx = Len(args.input) /\ pc' # "resolve"
Supplied == args.output_file.list

(* C5: when N names are supplied with -o for M inputs and N < M, naming leaves M
   names, the first N unchanged, and the name at each index j > N is the
   name derived from the input at the same index j. *)
C5_SameIndexNaming ==
    [][(NamingStep /\ ~args.output_file.isNone /\ Len(Supplied) < Len(inputList)) =>
          LET named == args'.output_file.list
          IN  /\ Len(named) = Len(inputList)
              /\ SubSeq(named, 1, Len(Supplied)) = Supplied
              /\ \A j \in (Len(Supplied) + 1)..Len(inputList) :
                     named[j] = DerivedName(inputList[j])
       ]_vars

(* os.path.splitext: the extension starts at the last '.' of the last path
   component, unless that component has nothing but dots before it *)
ExtStart(p) ==
    LET slashes == {k \in 1..Len(p) : p[k] = "/"}
        base == IF slashes = {} THEN 1
                ELSE (CHOOSE k \in slashes : \A n \in slashes : n <= k) + 1
        dots == {k \in base..Len(p) :
                    p[k] = "." /\ \E n \in base..(k - 1) : p[n] # "."}
    IN  IF dots = {} THEN Len(p) + 1
        ELSE CHOOSE k \in dots : \A n \in dots : n <= k

RootOf(p) == SubSeq(p, 1, ExtStart(p) - 1)
ExtOf(p) == SubSeq(p, ExtStart(p), Len(p))

(* the naming rule of the specification *)
RuleName(p) ==
    IF args.export_to_premiere THEN RootOf(p) \o DotXml
    ELSE RootOf(p) \o Altered \o ExtOf(p)

(* C6: every synthesized name is a queued input with its extension stripped,
   followed by .xml in export mode and by _ALTERED plus the extension
   otherwise, also for a name without '.' and for a '.' in a directory. *)
C6_NamingRule ==
    [][(NamingStep /\ ~args.output_file.isNone) =>
          LET named == args'.output_file.list
          IN  \A j \in (Len(Supplied) + 1)..Len(named) :
                  \E n \in DOMAIN inputList : named[j] = RuleName(inputList[n])
       ]_vars

(* C7: whenever a strategy's call statement is executed there are as many
   output names as queue entries. *)
C7_CountsAgree ==
    Selections # {} => Len(args.output_file.list) = Len(inputList)

(* C8: if some argument is an invalid reference the run never gets past
   resolution: it ends there with a non-zero status, and naming,
   concatenation, preview, probe, re-encode and strategies never happen. *)
C8_InvalidInputAborts ==
    (\E n \in DOMAIN args.input : IsInvalidRef(args.input[n])) =>
        /\ pc \in {"start", "resolve", "exited", "crashed"}
        /\ pc = "resolve" => idx < Len(args.input)
        /\ Terminated => (exitStatus # 0 /\ idx < Len(args.input)
                          /\ error # "TypeError")
        /\ \A k \in DOMAIN trace : trace[k].op = "download"
        /\ i = 0 /\ tempDirs = {}

(* a valid file was resolved, then the invalid argument ended the run *)
C8_Witness ==
    /\ pc = "exited"
    /\ exitStatus = 1
    /\ idx >= 1
    /\ inputList # <<>>
    /\ IsInvalidRef(args.input[idx + 1])
    /\ trace = <<>>

(* C9: a strategy call for a video entry whose probe text has no ` tbr`
   token comes after exactly one re-encode for that entry and passes the
   corrected path, not the queue entry, in export mode too. *)
C9_ReencodeBeforeDispatch ==
    \A k \in Selections :
        (inputList[trace[k].pos] \notin AudioFiles /\ ~reSearch(trace[k].text)) =>
            /\ Cardinality({r \in Reencodes(trace[k].pos) : r < k}) = 1
            /\ trace[k].file # inputList[trace[k].pos]

(* C10: a run that created a temporary directory does not end with the
   directory still on disk. *)
C10_TempRemovedOnExit ==
    (Terminated /\ TEMP # None) => TEMP \notin tempDirs

(* the output name of the last queue entry *)
LastOutput ==
    IF Len(inputList) \in DOMAIN args.output_file.list
    THEN args.output_file.list[Len(inputList)]
    ELSE Unbound

(* C11: a run that went through the dispatch loop ends with status 0 when
   the last queue entry's output file exists, and with the OutputMissing
   exit (sys.exit(1) of line 275, not an exception) when it does not. *)
C11_ExitFollowsLastOutput ==
    (Terminated /\ InLoop) =>
        IF isfile(LastOutput)
        THEN exitStatus = 0
        ELSE pc = "exited" /\ exitStatus = 1

(* strategy calls that raised instead of returning *)
FailedCalls == {k \in Selections : trace[k].out = Unbound}

(* C12: when the strategy call for queue position p fails, the run still
   goes on to every later position of the queue. *)
C12_FailureDoesNotAbort ==
    Terminated =>
        \A k \in FailedCalls :
            \A q \in (trace[k].pos + 1)..Len(inputList) :
                \E n \in Selections : trace[n].pos = q

(* lexicographic order of names, characters in code-point order *)
CodePoints == <<".", "/", "a", "c", "d", "e", "f", "g", "m", "q", "s", "x", "z">>
Ord(c) == CHOOSE n \in 1..Len(CodePoints) : CodePoints[n] = c

RECURSIVE LexLess(_, _)
LexLess(a, b) ==
    IF b = <<>> THEN FALSE
    ELSE IF a = <<>> THEN TRUE
    ELSE IF Head(a) = Head(b) THEN LexLess(Tail(a), Tail(b))
    ELSE Ord(Head(a)) < Ord(Head(b))

RECURSIVE SortedNames(_)
SortedNames(S) ==
    IF S = {} THEN <<>>
    ELSE LET least == CHOOSE a \in S : \A b \in S \ {a} : LexLess(a, b)
         IN  <<least>> \o SortedNames(S \ {least})

NoInvalidArg == \A n \in DOMAIN args.input : ~IsInvalidRef(args.input[n])

(* what one argument puts into the queue: a directory its names in sorted
   order (line 157), a file itself, a URL its download *)
Contribution(a) ==
    IF a \in ExistingDirs THEN SortedNames(listdir(a))
    ELSE IF a \in ExistingFiles THEN <<a>>
    ELSE <<reSubNonWord(a, FALSE) \o DotMp4>>

RECURSIVE ExpectedQueue(_)
ExpectedQueue(k) ==
    IF k = 0 THEN <<>>
    ELSE ExpectedQueue(k - 1) \o Contribution(args.input[k])

(* C13: with only valid arguments, the resolver consumes every argument and
   the queue is the arguments' contributions in argument order: a directory
   its entries sorted by name, a file or a URL exactly one entry. *)
C13_QueueInArgumentOrder ==
    NoInvalidArg =>
        /\ pc = "resolve" => inputList = ExpectedQueue(idx)
        /\ Terminated => idx = Len(args.input)

(* the path of the entry `name` of directory d *)
join(d, name) == d \o <<"/">> \o name

(* the directory arguments the resolver has come to *)
DirsReached ==
    {args.input[n] : n \in {m \in DOMAIN args.input :
                               m <= idx + 1 /\ args.input[m] \in ExistingDirs}}

(* C14: once the resolver has expanded a directory argument, the entries of
   the directory that are regular files are in the queue, at a path at which
   they exist, and its other entries are not. *)
C14_OnlyFilesFromDirectory ==
    (Terminated /\ ~args.combine_files) =>
        \A d \in DirsReached : \A name \in listdir(d) :
            LET queued == \E n \in DOMAIN inputList :
                             inputList[n] \in {name, join(d, name)}
            IN  /\ join(d, name) \in ExistingFiles =>
                      \E n \in DOMAIN inputList : inputList[n] = join(d, name)
                /\ join(d, name) \notin ExistingFiles => ~queued

(* a probe text that gives no frame rate: no match, or a match float() rejects *)
Undetectable(text) ==
    IF reSearch(text) THEN ~floatParses(fpsGroup(text)) ELSE TRUE

(* C15: a run in which the probe of a queue entry gave no match, or a match
   that is no floating-point number, has re-encoded that entry and gone on
   to call a strategy for it. *)
C15_UndetectableIsRecoverable ==
    Terminated =>
        \A k \in Probes :
            Undetectable(trace[k].text) =>
                /\ Reencodes(trace[k].pos) # {}
                /\ \E n \in Selections : n > k /\ trace[n].pos = trace[k].pos

EventsOf(op) == {k \in DOMAIN trace : trace[k].op = op}

(* C18: in combine-files mode naming synthesizes nothing (the output list
   stays as supplied); and once a strategy is called the manifest was
   written, concatenated and removed before it, in that order, the queue is
   the one combined file and the run has exactly one strategy call. *)
C18_CombineBypassesNaming ==
    /\ [][(NamingStep /\ args.combine_files /\ ~args.output_file.isNone) =>
             args'.output_file.list = Supplied]_vars
    /\ []((args.combine_files /\ Selections # {}) =>
             /\ inputList = <<CombinedMp4>>
             /\ Cardinality(Selections) = 1
             /\ \E w \in EventsOf("write_manifest"), c \in EventsOf("concat"),
                   r \in EventsOf("remove_manifest") :
                     /\ w < c /\ c < r
                     /\ \A n \in Selections : r < n)

(* C19: a run in preview mode with a non-empty list of valid arguments ends
   with status 0 after exactly one preview call, made on the first argument
   as typed, and without any probe, re-encode or strategy call. *)
C19_PreviewOnceThenExit ==
    (Terminated /\ args.preview /\ args.input # <<>> /\ NoInvalidArg) =>
        /\ exitStatus = 0
        /\ Cardinality(EventsOf("preview")) = 1
        /\ \A k \in EventsOf("preview") : trace[k].file = args.input[1]
        /\ Probes = {} /\ Selections = {} /\ EventsOf("reencode") = {}

====
